---- MODULE Spec2Model ----
(***************************************************************************)
(* Model of pytorch_lightning/metrics/functional/regression.py: the        *)
(* regression metrics mse, rmse, mae, psnr and the structural similarity   *)
(* index ssim.                                                             *)
(*                                                                         *)
(* Numbers.  Tensor inputs hold small integers.  Every floating-point      *)
(* result is modelled as an exact rational [n |-> numerator, d |->         *)
(* denominator] in lowest terms (rounding is not modelled).  A quotient    *)
(* whose numerator and denominator would not fit a machine integer is kept *)
(* in factored form [nf |-> factors, df |-> factors]; 0/0 is NaN and x/0   *)
(* is Inf, as in IEEE arithmetic.  sqrt and log are kept as terms over     *)
(* their exact argument.  exp, used only for the Gaussian window, is       *)
(* quantised to fifths.                                                    *)
(*                                                                         *)
(* A tensor is [dtype, shape, data] with data in row-major order.          *)
(* A call returns [err, val, steps]: the exception raised ("" when none),  *)
(* the value returned, and the tensor computations performed, in order.    *)
(***************************************************************************)
EXTENDS Integers, Sequences, FiniteSets, TLC

VARIABLES fn, pred, target, reduction, return_state, data_range,
          kernel_size, sigma, mask, st1, st2, out, output_list, pc

vars == <<fn, pred, target, reduction, return_state, data_range,
          kernel_size, sigma, mask, st1, st2, out, output_list, pc>>

\* ------------------------------------------------------------ bounds
\* Largest element value of a generated tensor.
MaxVal == 1
\* Largest number of elements of a 1-D tensor given to mse/mae/rmse/psnr.
MaxLen == 3

\* ------------------------------------------------- exact arithmetic
Abs(x) == IF x < 0 THEN -x ELSE x

RECURSIVE GCD(_, _)
GCD(a, b) == IF b = 0 THEN a ELSE GCD(b, a % b)

LCM(a, b) == (a \div GCD(a, b)) * b

\* The rational n/d (d # 0) in lowest terms with a positive denominator.
F(n, d) ==
    LET s == IF d < 0 THEN -1 ELSE 1
        g == GCD(Abs(n), Abs(d))
    IN  [n |-> (s * n) \div g, d |-> (s * d) \div g]

FInt(i) == [n |-> i, d |-> 1]

FAdd(a, b) ==
    LET l == LCM(a.d, b.d)
    IN  F(a.n * (l \div a.d) + b.n * (l \div b.d), l)

FNeg(a) == [n |-> -a.n, d |-> a.d]

FSub(a, b) == FAdd(a, FNeg(b))

FMul(a, b) ==
    LET x == F(a.n, b.d)
        y == F(b.n, a.d)
    IN  [n |-> x.n * y.n, d |-> x.d * y.d]

IsFrac(x) == "n" \in DOMAIN x

NaN == [nan |-> TRUE]

Inf == [inf |-> TRUE]

RECURSIVE FSumSeq(_)
FSumSeq(s) == IF s = <<>> THEN FInt(0) ELSE FAdd(Head(s), FSumSeq(Tail(s)))

\* ------------------------------------------------------------ tensors
Float32 == "float32"
Float64 == "float64"

\* data is stored as an explicit tuple.
Tensor(dtype, shape, data) ==
    [dtype |-> dtype, shape |-> shape, data |-> data \o <<>>]

\* torch.tensor(x): a 0-dimensional tensor.
Scalar(x) == Tensor(Float32, <<>>, <<x>>)

\* Tensor.numel()
Numel(t) == Len(t.data)

RECURSIVE MaxSeq(_)
MaxSeq(s) ==
    IF Len(s) = 1 THEN s[1]
    ELSE LET m == MaxSeq(Tail(s)) IN IF s[1] > m THEN s[1] ELSE m

RECURSIVE MinSeq(_)
MinSeq(s) ==
    IF Len(s) = 1 THEN s[1]
    ELSE LET m == MinSeq(Tail(s)) IN IF s[1] < m THEN s[1] ELSE m

\* Tensor.max() - Tensor.min() of an integer-valued input tensor.
Range(t) == MaxSeq(t.data) - MinSeq(t.data)

\* Broadcasting of two 1-D tensors: equal lengths, or one of length 1.
BroadcastLen(a, b) == IF Numel(a) >= Numel(b) THEN Numel(a) ELSE Numel(b)

At(t, i) == IF Numel(t) = 1 THEN t.data[1] ELSE t.data[i]

\* Tensor.sum(): 0-dimensional.  A sum of quotients kept in factored form
\* stays a term; NaN propagates.
SumData(data) ==
    IF \A i \in 1..Len(data) : IsFrac(data[i]) THEN FSumSeq(data)
    ELSE IF \E i \in 1..Len(data) : data[i] = NaN THEN NaN
    ELSE [terms |-> data, div |-> 1]

TSum(t) == Scalar(SumData(t.data))

\* Tensor.mean(): 0-dimensional.
MeanData(data) ==
    IF \A i \in 1..Len(data) : IsFrac(data[i])
    THEN FMul(FSumSeq(data), F(1, Len(data)))
    ELSE IF \E i \in 1..Len(data) : data[i] = NaN THEN NaN
    ELSE [terms |-> data, div |-> Len(data)]

TMean(t) == Scalar(MeanData(t.data))

\* torch.sqrt, elementwise, as a term over the exact argument.
TSqrt(t) == Tensor(t.dtype, t.shape, [i \in 1..Numel(t) |-> [sqrt |-> t.data[i]]])

\* Tensor.view(-1)
ViewFlat(t) == Tensor(t.dtype, <<Numel(t)>>, t.data)

\* ------------------------------------------------------- call results
Ok(val, steps) == [err |-> "", val |-> val, steps |-> steps]

Raise(err, steps) == [err |-> err, val |-> <<>>, steps |-> steps]

NoCall == [err |-> "", val |-> <<>>, steps |-> <<>>]

\* ---------------------------------------------------------- reduction
ElementwiseMean == "elementwise_mean"
ReduceSum == "sum"
ReduceNone == "none"

ReductionError == "ValueError: Reduction parameter unknown."

\* reduction.reduce(to_reduce, reduction)
Reduce(to_reduce, red) ==
    CASE red = ElementwiseMean -> Ok(TMean(to_reduce), <<"reduce">>)
      [] red = ReduceNone -> Ok(to_reduce, <<"reduce">>)
      [] red = ReduceSum -> Ok(TSum(to_reduce), <<"reduce">>)
      [] OTHER -> Raise(ReductionError, <<"reduce">>)

\* ----------------------------------------------------- regression.py
\* F.mse_loss(pred, target, reduction='none')
mse_loss(p, t) ==
    Tensor(p.dtype, <<BroadcastLen(p, t)>>,
           [i \in 1..BroadcastLen(p, t) |->
               FInt((At(p, i) - At(t, i)) * (At(p, i) - At(t, i)))])

\* F.l1_loss(pred, target, reduction='none')
l1_loss(p, t) ==
    Tensor(p.dtype, <<BroadcastLen(p, t)>>,
           [i \in 1..BroadcastLen(p, t) |-> FInt(Abs(At(p, i) - At(t, i)))])

\* mse with the state's squared_error taken as the mean of the errors.
mse_MeanState(p, t, red, rs) ==
    LET e == mse_loss(p, t)
    IN  IF rs
        THEN Ok([squared_error |-> TMean(e),
                 n_observations |-> Scalar(FInt(Numel(e)))], <<"mse_loss">>)
        ELSE LET r == Reduce(e, red)
             IN  [err |-> r.err, val |-> r.val, steps |-> <<"mse_loss">> \o r.steps]

\* mse with the reduction mode checked on entry.
mse_EarlyCheck(p, t, red, rs) ==
    IF red \notin {ElementwiseMean, ReduceSum, ReduceNone}
    THEN Raise(ReductionError, <<>>)
    ELSE LET e == mse_loss(p, t)
         IN  IF rs
             THEN Ok([squared_error |-> TSum(e),
                      n_observations |-> Scalar(FInt(Numel(e)))], <<"mse_loss">>)
             ELSE LET r == Reduce(e, red)
                  IN  [err |-> r.err, val |-> r.val,
                       steps |-> <<"mse_loss">> \o r.steps]

mse(p, t, red, rs) ==
    LET e == mse_loss(p, t)
    IN  IF rs
        THEN Ok([squared_error |-> TSum(e),
                 n_observations |-> Scalar(FInt(Numel(e)))], <<"mse_loss">>)
        ELSE LET r == Reduce(e, red)
             IN  [err |-> r.err, val |-> r.val, steps |-> <<"mse_loss">> \o r.steps]

\* rmse returning the state of the per-element errors.
rmse_RawState(p, t, red, rs) ==
    LET mean_squared_error == mse(p, t, red, rs)
    IN  IF mean_squared_error.err # "" \/ rs THEN mean_squared_error
        ELSE Ok(TSqrt(mean_squared_error.val), mean_squared_error.steps \o <<"sqrt">>)

rmse(p, t, red, rs) ==
    LET mean_squared_error == mse(p, t, red, FALSE)
    IN  IF mean_squared_error.err # "" THEN mean_squared_error
        ELSE IF rs
        THEN Ok([squared_error |-> TSum(mean_squared_error.val),
                 n_observations |-> Scalar(FInt(Numel(mean_squared_error.val)))],
                mean_squared_error.steps)
        ELSE Ok(TSqrt(mean_squared_error.val), mean_squared_error.steps \o <<"sqrt">>)

mae(p, t, red, rs) ==
    LET e == l1_loss(p, t)
    IN  IF rs
        THEN Ok([absolute_error |-> TSum(e),
                 n_observations |-> Scalar(FInt(Numel(e)))], <<"l1_loss">>)
        ELSE LET r == Reduce(e, red)
             IN  [err |-> r.err, val |-> r.val, steps |-> <<"l1_loss">> \o r.steps]

\* Default of psnr's parameter base.
Base == 10

\* psnr_base_e * (10 / log(base)), elementwise, as a term over the exact
\* data range and mean squared error.
PsnrTerm(dr, mse_score, base) ==
    Tensor(mse_score.dtype, mse_score.shape,
           [i \in 1..Numel(mse_score) |->
               [log_data_range |-> dr.data[1], log_mse |-> mse_score.data[i],
                base |-> base]])

\* data_range is <<>> for None and <<d>> for the number d.
psnr(p, t, dr, base, red, rs) ==
    LET range == IF dr = <<>> THEN Scalar(FInt(Range(t)))
                 ELSE Scalar(FInt(dr[1]))
        first == IF dr = <<>> THEN <<"max_min">> ELSE <<>>
    IN  IF rs
        THEN Ok([data_range |-> range,
                 sum_squared_error |-> TSum(mse_loss(p, t)),
                 n_obs |-> Scalar(FInt(Numel(t)))], first \o <<"mse_loss">>)
        ELSE LET mse_score == mse(ViewFlat(p), ViewFlat(t), red, FALSE)
             IN  IF mse_score.err # ""
                 THEN [mse_score EXCEPT !.steps = first \o @]
                 ELSE Ok(PsnrTerm(range, mse_score.val, base),
                         first \o mse_score.steps \o <<"log">>)

\* Quantised exp(-x2 / (2 * s^2)), in fifths, for the window offsets and
\* standard deviations the model generates (x2 is the squared offset).
ExpFifths(x2, s) ==
    CASE x2 = 0 -> 5
      [] x2 = 1 /\ s = 1 -> 3
      [] x2 = 1 /\ s = 2 -> 4
      [] OTHER -> 1

\* _gaussian(kernel_size, sigma): the normalised 1-D window, kernel_size odd.
gaussian(k, s) ==
    LET start == (1 - k) \div 2
        gauss == [i \in 1..k |->
                    F(ExpFifths((start + i - 1) * (start + i - 1), s), 5)] \o <<>>
        total == FSumSeq(gauss)
    IN  [i \in 1..k |-> FMul(gauss[i], F(total.d, total.n))] \o <<>>

\* _gaussian_kernel(channel, kernel_size, sigma): shape (channel, 1, kh, kw),
\* the same outer product for every channel.
gaussian_kernel(channel, ks, sg) ==
    LET gaussian_kernel_x == gaussian(ks[1], sg[1])
        gaussian_kernel_y == gaussian(ks[2], sg[2])
        per == ks[1] * ks[2]
    IN  Tensor(Float32, <<channel, 1, ks[1], ks[2]>>,
               [k \in 1..(channel * per) |->
                   FMul(gaussian_kernel_x[(((k - 1) % per) \div ks[2]) + 1],
                        gaussian_kernel_y[((k - 1) % ks[2]) + 1])])

\* Row-major position (1-based) of element (n, c, i, j), each 0-based.
Idx4(shape, n, c, i, j) ==
    ((n * shape[2] + c) * shape[3] + i) * shape[4] + j + 1

\* a * b, elementwise, of integer-valued tensors of one shape.
IntMul(a, b) ==
    Tensor(a.dtype, a.shape, [i \in 1..Numel(a) |-> a.data[i] * b.data[i]])

\* torch.cat(tensors) along dimension 0 (all of one trailing shape).
RECURSIVE CatData(_)
CatData(ts) == IF ts = <<>> THEN <<>> ELSE Head(ts).data \o CatData(Tail(ts))

RECURSIVE CatRows(_)
CatRows(ts) == IF ts = <<>> THEN 0 ELSE Head(ts).shape[1] + CatRows(Tail(ts))

Cat(ts) ==
    Tensor(ts[1].dtype, <<CatRows(ts)>> \o Tail(ts[1].shape), CatData(ts))

ConvError == "RuntimeError: Kernel size can't be greater than actual input size"

\* Whether F.conv2d accepts the input: no padding, so the window must fit.
ConvFits(shape, ks) == shape[3] >= ks[1] /\ shape[4] >= ks[2]

RECURSIVE WindowSum(_, _, _, _, _, _, _)
\* Sum over window positions m..kh*kw-1 of kernel[c,0,a,b] * in[n,c,i+a,j+b].
WindowSum(inp, kernel, n, c, i, j, m) ==
    LET kh == kernel.shape[3]
        kw == kernel.shape[4]
        a == m \div kw
        b == m % kw
    IN  IF m >= kh * kw THEN FInt(0)
        ELSE FAdd(FMul(kernel.data[Idx4(kernel.shape, c, 0, a, b)],
                       FInt(inp.data[Idx4(inp.shape, n, c, i + a, j + b)])),
                  WindowSum(inp, kernel, n, c, i, j, m + 1))

\* F.conv2d(input, kernel, groups=channel): stride 1, no padding, each
\* channel filtered by its own kernel.
conv2d(inp, kernel) ==
    LET oh == inp.shape[3] - kernel.shape[3] + 1
        ow == inp.shape[4] - kernel.shape[4] + 1
        ch == inp.shape[2]
    IN  Tensor(inp.dtype, <<inp.shape[1], ch, oh, ow>>,
               [k \in 1..(inp.shape[1] * ch * oh * ow) |->
                   WindowSum(inp, kernel,
                             (k - 1) \div (ch * oh * ow),
                             ((k - 1) \div (oh * ow)) % ch,
                             ((k - 1) \div ow) % oh,
                             (k - 1) % ow, 0)])

Min2(a, b) == IF a < b THEN a ELSE b

\* t[lo:hi] along dimension 0, with Python's clamping of the bounds.
Slice(t, lo, hi) ==
    LET rows == t.shape[1]
        per == IF rows = 0 THEN 0 ELSE Numel(t) \div rows
        l == Min2(lo, rows)
        h == Min2(hi, rows)
    IN  Tensor(t.dtype, <<h - l>> \o Tail(t.shape),
               SubSeq(t.data, l * per + 1, h * per))

\* [outputs[x * B: (x + 1) * B] for x in range(len(outputs))]
SplitOutputs(outputs, batch) ==
    [x \in 1..outputs.shape[1] |-> Slice(outputs, (x - 1) * batch, x * batch)]
        \o <<>>

\* a + b, a - b, a * b, elementwise, of rational tensors of one shape.
TAdd(a, b) ==
    Tensor(a.dtype, a.shape, [i \in 1..Numel(a) |-> FAdd(a.data[i], b.data[i])])

TSub(a, b) ==
    Tensor(a.dtype, a.shape, [i \in 1..Numel(a) |-> FSub(a.data[i], b.data[i])])

TMul(a, b) ==
    Tensor(a.dtype, a.shape, [i \in 1..Numel(a) |-> FMul(a.data[i], b.data[i])])

\* a + x and x * a for a rational tensor a and a number x.
TAddScalar(a, x) ==
    Tensor(a.dtype, a.shape, [i \in 1..Numel(a) |-> FAdd(a.data[i], x)])

TScale(x, a) ==
    Tensor(a.dtype, a.shape, [i \in 1..Numel(a) |-> FMul(x, a.data[i])])

\* (A * U) / (B * L) of rationals: NaN for 0/0, Inf for x/0, else with equal
\* factors cancelled and the rest kept in factored form.
Quot(A, U, B, L) ==
    IF B.n = 0 \/ L.n = 0 THEN (IF A.n = 0 \/ U.n = 0 THEN NaN ELSE Inf)
    ELSE IF A.n = 0 \/ U.n = 0 THEN FInt(0)
    ELSE IF A = B THEN (IF U = L THEN FInt(1) ELSE [nf |-> <<U>>, df |-> <<L>>])
    ELSE IF A = L THEN (IF U = B THEN FInt(1) ELSE [nf |-> <<U>>, df |-> <<B>>])
    ELSE IF U = B THEN [nf |-> <<A>>, df |-> <<L>>]
    ELSE IF U = L THEN [nf |-> <<A>>, df |-> <<B>>]
    ELSE [nf |-> <<A, U>>, df |-> <<B, L>>]

\* Defaults of ssim's parameters k1 = 0.01 and k2 = 0.03, as K1Num / KDen
\* and K2Num / KDen.
K1Num == 1
K2Num == 3
KDen == 100

TypeError == "TypeError: Expected pred and target to have the same data type."
ShapeError == "ValueError: Expected pred and target to have the same shape."
RankError == "ValueError: Expected pred and target to have BxCxHxW shape."
LengthError == "ValueError: Expected kernel_size and sigma to have the length of two."
KernelSizeError == "ValueError: Expected kernel_size to have odd positive number."
SigmaError == "ValueError: Expected sigma to have positive number."

\* The argument checks with the shape compared before the data type.
ssim_validate_ShapeFirst(p, t, ks, sg) ==
    IF p.shape # t.shape THEN ShapeError
    ELSE IF p.dtype # t.dtype THEN TypeError
    ELSE IF Len(p.shape) # 4 \/ Len(t.shape) # 4 THEN RankError
    ELSE IF Len(ks) # 2 \/ Len(sg) # 2 THEN LengthError
    ELSE IF \E i \in 1..Len(ks) : ks[i] % 2 = 0 \/ ks[i] <= 0 THEN KernelSizeError
    ELSE IF \E i \in 1..Len(sg) : sg[i] <= 0 THEN SigmaError
    ELSE ""

\* The argument checks of ssim, in order: the error of the first that fails,
\* "" when all pass.
ssim_validate(p, t, ks, sg) ==
    IF p.dtype # t.dtype THEN TypeError
    ELSE IF p.shape # t.shape THEN ShapeError
    ELSE IF Len(p.shape) # 4 \/ Len(t.shape) # 4 THEN RankError
    ELSE IF Len(ks) # 2 \/ Len(sg) # 2 THEN LengthError
    ELSE IF \E i \in 1..Len(ks) : ks[i] % 2 = 0 \/ ks[i] <= 0 THEN KernelSizeError
    ELSE IF \E i \in 1..Len(sg) : sg[i] <= 0 THEN SigmaError
    ELSE ""

\* data_range taken from target alone, as psnr does.
ssim_data_range_TargetOnly(p, t, dr) == IF dr = <<>> THEN Range(t) ELSE dr[1]

\* data_range as ssim uses it (<<>> for None).
ssim_data_range(p, t, dr) ==
    IF dr = <<>>
    THEN (IF Range(p) >= Range(t) THEN Range(p) ELSE Range(t))
    ELSE dr[1]

\* The local variable output_list of ssim (arguments valid, window fits).
ssim_output_list(p, t, ks, sg) ==
    LET kernel == gaussian_kernel(p.shape[2], ks, sg)
        input_list == Cat(<<p, t, IntMul(p, p), IntMul(t, t), IntMul(p, t)>>)
        outputs == conv2d(input_list, kernel)
    IN  SplitOutputs(outputs, p.shape[1])

\* UPPER without the factor 2.
UPPER_NoDouble(sigma_pred_target, C2) == TAddScalar(sigma_pred_target, C2)

\* UPPER = 2 * sigma_pred_target + C2
UPPER(sigma_pred_target, C2) ==
    TAddScalar(TScale(FInt(2), sigma_pred_target), C2)

\* LOWER = sigma_pred_sq + sigma_target_sq + C2
LOWER(sigma_pred_sq, sigma_target_sq, C2) ==
    TAddScalar(TAdd(sigma_pred_sq, sigma_target_sq), C2)

\* The similarity map ssim_idx computed from output_list.
ssim_index(ol, C1, C2) ==
    LET mu_pred_sq == TMul(ol[1], ol[1])
        mu_target_sq == TMul(ol[2], ol[2])
        mu_pred_target == TMul(ol[1], ol[2])
        sigma_pred_sq == TSub(ol[3], mu_pred_sq)
        sigma_target_sq == TSub(ol[4], mu_target_sq)
        sigma_pred_target == TSub(ol[5], mu_pred_target)
        upper == UPPER(sigma_pred_target, C2)
        lower == LOWER(sigma_pred_sq, sigma_target_sq, C2)
        num == TAddScalar(TScale(FInt(2), mu_pred_target), C1)
        den == TAddScalar(TAdd(mu_pred_sq, mu_target_sq), C1)
    IN  Tensor(upper.dtype, upper.shape,
               [i \in 1..Numel(upper) |->
                   Quot(num.data[i], upper.data[i], den.data[i], lower.data[i])])

ssim(p, t, ks, sg, red, dr, k1, k2) ==
    LET bad == ssim_validate(p, t, ks, sg)
        first == IF dr = <<>> THEN <<"max_min">> ELSE <<>>
    IN  IF bad # "" THEN Raise(bad, <<>>)
        ELSE IF ~ConvFits(p.shape, ks)
        THEN Raise(ConvError, first \o <<"gaussian_kernel", "cat", "conv2d">>)
        ELSE LET range == FInt(ssim_data_range(p, t, dr))
                 C1 == FMul(FMul(k1, range), FMul(k1, range))
                 C2 == FMul(FMul(k2, range), FMul(k2, range))
                 ssim_idx == ssim_index(ssim_output_list(p, t, ks, sg), C1, C2)
                 r == Reduce(ssim_idx, red)
             IN  [err |-> r.err, val |-> r.val,
                  steps |-> first \o <<"gaussian_kernel", "cat", "conv2d", "ssim_idx">>
                            \o r.steps]

\* ------------------------------------------------------ state machine
\* One session: inputs are drawn, then either one call of the metric on the
\* whole pair (Call, CallSsim), or the distributed use the return_state
\* docstrings describe: two workers each call the metric with
\* return_state=True on their partition of the pair (Worker1, Worker2).

K1 == F(K1Num, KDen)
K2 == F(K2Num, KDen)

RegFns == {"mse", "mae", "rmse", "psnr"}

Reductions == {ElementwiseMean, ReduceSum, ReduceNone, "bogus"}

Vecs(n) == [1..n -> 0..MaxVal]

Vec(data) == Tensor(Float32, <<Len(data)>>, data)

\* data_range arguments given to psnr and to ssim.
PsnrRanges == {<<>>, <<2>>}
SsimRanges == {<<>>, <<1>>}

RECURSIVE Prod(_)
Prod(shape) == IF shape = <<>> THEN 1 ELSE Head(shape) * Prod(Tail(shape))

Zeros(dtype, shape) == Tensor(dtype, shape, [i \in 1..Prod(shape) |-> 0])

\* Shapes, windows and standard deviations for the argument checks of ssim.
CheckShapes == {<<1, 1, 1>>, <<1, 1, 1, 1>>, <<1, 1, 3, 1>>, <<2, 1, 1, 1>>}
CheckKernelSizes ==
    {<<1, 1>>, <<3, 1>>, <<1, 3>>, <<3, 3>>, <<2, 1>>, <<1, 0>>, <<-1, 1>>,
     <<1>>, <<1, 1, 1>>}
CheckSigmas == {<<1, 1>>, <<2, 1>>, <<0, 1>>, <<1, -1>>, <<1>>, <<1, 1, 1>>}

\* Image shapes (B, C, H, W) and valid (kernel_size, sigma) pairs for the
\* similarity computation.
ImageShapes ==
    {<<1, 1, 1, 1>>, <<2, 1, 1, 1>>, <<1, 2, 1, 1>>, <<3, 1, 1, 1>>,
     <<1, 1, 3, 1>>, <<1, 1, 1, 3>>}
Windows ==
    {<<<<1, 1>>, <<1, 1>>>>, <<<<3, 1>>, <<1, 1>>>>, <<<<1, 3>>, <<2, 2>>>>}

Idle ==
    /\ reduction = ElementwiseMean
    /\ return_state = FALSE
    /\ mask = {}
    /\ st1 = NoCall
    /\ st2 = NoCall
    /\ out = NoCall
    /\ output_list = <<>>
    /\ pc = "ready"

InitReg ==
    /\ fn \in RegFns
    /\ \E n, m \in 1..MaxLen :
          /\ n = m \/ n = 1 \/ m = 1
          /\ pred \in {Vec(d) : d \in Vecs(n)}
          /\ target \in {Vec(d) : d \in Vecs(m)}
    /\ data_range \in (IF fn = "psnr" THEN PsnrRanges ELSE {<<>>})
    /\ kernel_size = <<>>
    /\ sigma = <<>>
    /\ Idle

InitSsimChecks ==
    /\ fn = "ssim"
    /\ \E ps \in CheckShapes, ts \in CheckShapes,
          pd \in {Float32, Float64}, td \in {Float32, Float64} :
          /\ pred = Zeros(pd, ps)
          /\ target = Zeros(td, ts)
    /\ kernel_size \in CheckKernelSizes
    /\ sigma \in CheckSigmas
    /\ data_range = <<>>
    /\ Idle

InitSsimImages ==
    /\ fn = "ssim"
    /\ \E shape \in ImageShapes :
          /\ pred \in {Tensor(Float32, shape, d) : d \in Vecs(Prod(shape))}
          /\ target \in {Tensor(Float32, shape, d) : d \in Vecs(Prod(shape))}
    /\ \E w \in Windows : kernel_size = w[1] /\ sigma = w[2]
    /\ data_range \in SsimRanges
    /\ Idle

Init == InitReg \/ InitSsimChecks \/ InitSsimImages

\* The 1-D tensor of t's elements at the positions in m, in order.
RECURSIVE PartData(_, _, _)
PartData(data, m, i) ==
    IF i > Len(data) THEN <<>>
    ELSE (IF i \in m THEN <<data[i]>> ELSE <<>>) \o PartData(data, m, i + 1)

Part(t, m) == Vec(PartData(t.data, m, 1))

\* Splits of positions 1..n into two non-empty parts, named by the part
\* that holds position 1.
Masks(n) == {m \in SUBSET (1..n) : 1 \in m /\ m # 1..n}

Metric(f, p, t, dr, red, rs) ==
    CASE f = "mse" -> mse(p, t, red, rs)
      [] f = "mae" -> mae(p, t, red, rs)
      [] f = "rmse" -> rmse(p, t, red, rs)
      [] f = "psnr" -> psnr(p, t, dr, Base, red, rs)

\* A worker calls fn(..., return_state=True) on the part m of the pair.
Worker1(m) ==
    /\ pc = "ready"
    /\ fn \in RegFns
    /\ Numel(pred) = Numel(target)
    /\ m \in Masks(Numel(pred))
    /\ mask' = m
    /\ st1' = Metric(fn, Part(pred, m), Part(target, m), data_range, reduction, TRUE)
    /\ pc' = "worker1"
    /\ UNCHANGED <<fn, pred, target, reduction, return_state, data_range,
                   kernel_size, sigma, st2, out, output_list>>

\* The other worker calls it on the rest of the pair.
Worker2 ==
    /\ pc = "worker1"
    /\ st2' = Metric(fn, Part(pred, (1..Numel(pred)) \ mask),
                     Part(target, (1..Numel(pred)) \ mask),
                     data_range, reduction, TRUE)
    /\ pc' = "worker2"
    /\ UNCHANGED <<fn, pred, target, reduction, return_state, data_range,
                   kernel_size, sigma, mask, st1, out, output_list>>

\* One call fn(pred, target, reduction=red, return_state=rs) on the pair.
Call(red, rs) ==
    /\ pc = "ready"
    /\ fn \in RegFns
    /\ reduction' = red
    /\ return_state' = rs
    /\ out' = Metric(fn, pred, target, data_range, red, rs)
    /\ pc' = "called"
    /\ UNCHANGED <<fn, pred, target, data_range, kernel_size, sigma, mask,
                   st1, st2, output_list>>

\* One call ssim(pred, target, kernel_size, sigma, red, data_range).
CallSsim(red) ==
    /\ pc = "ready"
    /\ fn = "ssim"
    /\ reduction' = red
    /\ out' = ssim(pred, target, kernel_size, sigma, red, data_range, K1, K2)
    /\ output_list' =
          IF ssim_validate(pred, target, kernel_size, sigma) = ""
             /\ ConvFits(pred.shape, kernel_size)
          THEN ssim_output_list(pred, target, kernel_size, sigma)
          ELSE <<>>
    /\ pc' = "called"
    /\ UNCHANGED <<fn, pred, target, return_state, data_range, kernel_size,
                   sigma, mask, st1, st2>>

Next ==
    \/ \E m \in SUBSET (1..MaxLen) : Worker1(m)
    \/ Worker2
    \/ \E red \in Reductions, rs \in BOOLEAN : Call(red, rs)
    \/ \E red \in Reductions : CallSsim(red)

Spec == Init /\ [][Next]_vars

\* ------------------------------------------------------------- claims
ValidReductions == {ElementwiseMean, ReduceSum, ReduceNone}

\* The value of a 0-dimensional tensor.
Item(t) == t.data[1]

\* a / b of rationals, b # 0.
FDiv(a, b) == FMul(a, F(b.d, b.n))

\* Sum over the broadcast pair of (pred[i] - target[i])^2, by position.
RECURSIVE SqDiffSum(_, _, _)
SqDiffSum(p, t, i) ==
    IF i = 0 THEN 0
    ELSE (At(p, i) - At(t, i)) * (At(p, i) - At(t, i)) + SqDiffSum(p, t, i - 1)

\* The field of the two workers' states, summed.
Summed(field) == FAdd(Item(st1.val[field]), Item(st2.val[field]))

\* C1: for mse and mae, the error fields of the states of two disjoint
\* non-empty partitions summed, divided by the summed n_observations, equal
\* the metric of the whole pair under reduction 'elementwise_mean'.
C1_StateMerge ==
    (pc = "worker2" /\ fn \in {"mse", "mae"}) =>
        LET key == IF fn = "mse" THEN "squared_error" ELSE "absolute_error"
            whole == Metric(fn, pred, target, data_range, ElementwiseMean, FALSE)
        IN  /\ st1.err = "" /\ st2.err = "" /\ whole.err = ""
            /\ FDiv(Summed(key), Summed("n_observations")) = Item(whole.val)

C1_Witness ==
    /\ pc = "worker2"
    /\ fn = "mse"
    /\ Numel(pred) = 3
    /\ Cardinality(mask) = 2
    /\ Item(st1.val.squared_error).n > 0
    /\ Item(st2.val.squared_error).n > 0

\* The six argument checks of ssim, as the specification numbers them.
CheckPasses(k) ==
    CASE k = 1 -> pred.dtype = target.dtype
      [] k = 2 -> pred.shape = target.shape
      [] k = 3 -> Len(pred.shape) = 4 /\ Len(target.shape) = 4
      [] k = 4 -> Len(kernel_size) = 2 /\ Len(sigma) = 2
      [] k = 5 -> \A i \in 1..Len(kernel_size) :
                     kernel_size[i] % 2 = 1 /\ kernel_size[i] > 0
      [] k = 6 -> \A i \in 1..Len(sigma) : sigma[i] > 0

CheckError(k) ==
    CASE k = 1 -> TypeError
      [] k = 2 -> ShapeError
      [] k = 3 -> RankError
      [] k = 4 -> LengthError
      [] k = 5 -> KernelSizeError
      [] k = 6 -> SigmaError

SsimCheckErrors == {CheckError(k) : k \in 1..6}

\* C2: ssim raises the error of the first of its six argument checks that
\* fails, in the order dtype, shape, rank, lengths, kernel_size, sigma, and
\* none of these errors when all six pass.
C2_FirstFailingCheck ==
    (pc = "called" /\ fn = "ssim") =>
        LET failing == {k \in 1..6 : ~CheckPasses(k)}
        IN  IF failing = {} THEN out.err \notin SsimCheckErrors
            ELSE \E k \in failing :
                    /\ \A j \in failing : k <= j
                    /\ out.err = CheckError(k)

C2_Witness ==
    /\ pc = "called"
    /\ fn = "ssim"
    /\ pred.dtype # target.dtype
    /\ pred.shape # target.shape
    /\ Len(pred.shape) = 3
    /\ kernel_size = <<2, 1>>
    /\ out.err = TypeError

\* What C3 asserts of the result of a call ssim(x, x): the similarity is 1
\* at every position, and 1 under reduction 'elementwise_mean'.
SelfSimilarityIsOne ==
    /\ out.err = ""
    /\ reduction = ReduceNone =>
          \A i \in 1..Numel(out.val) : out.val.data[i] = FInt(1)
    /\ reduction = ElementwiseMean => Item(out.val) = FInt(1)

\* A completed call ssim(x, x) with valid arguments, data_range unspecified.
SelfCall ==
    /\ pc = "called"
    /\ fn = "ssim"
    /\ pred = target
    /\ data_range = <<>>
    /\ \A k \in 1..6 : CheckPasses(k)
    /\ ConvFits(pred.shape, kernel_size)
    /\ reduction \in {ReduceNone, ElementwiseMean}

Computes(steps) ==
    \E i \in 1..Len(steps) : steps[i] \in {"mse_loss", "l1_loss", "conv2d"}

\* C4 as stated: every structural error, an invalid reduction mode included,
\* is raised before any computation on the tensors, and no call given an
\* invalid reduction mode returns a result.
C4_FailFast ==
    pc = "called" =>
        /\ out.err \in SsimCheckErrors \cup {ReductionError} => out.steps = <<>>
        /\ reduction \notin ValidReductions => out.err # ""

\* C4 amended: the six argument checks of ssim raise before any computation
\* on the tensors; an invalid reduction mode is raised only by the final
\* reduce, after the elementwise error or the convolution has been computed;
\* mse, mae and psnr with return_state=True return their state without
\* reaching reduce, whatever the reduction mode.
C4_ErrorTiming ==
    pc = "called" =>
        /\ out.err \in SsimCheckErrors => out.steps = <<>>
        /\ out.err = ReductionError =>
              /\ reduction \notin ValidReductions
              /\ Computes(out.steps)
              /\ out.steps[Len(out.steps)] = "reduce"
        /\ (reduction \notin ValidReductions /\ fn \in {"mse", "mae", "psnr"}
            /\ return_state) =>
              (out.err = "" /\ Computes(out.steps))
        /\ (reduction \notin ValidReductions
            /\ (fn = "rmse" \/ (fn \in RegFns /\ ~return_state))) =>
              out.err = ReductionError
        /\ (reduction \notin ValidReductions /\ fn = "ssim") => out.err # ""

C4_Witness ==
    /\ pc = "called"
    /\ fn = "ssim"
    /\ out.err = ReductionError
    /\ out.steps[Len(out.steps) - 2] = "conv2d"

\* C5: for rmse with return_state=True and the default reduction, the
\* squared_error fields of two partitions' states summed, divided by the
\* summed n_observations, equal the mean squared error of the whole pair.
C5_RmseStateMerge ==
    (pc = "worker2" /\ fn = "rmse") =>
        FDiv(Summed("squared_error"), Summed("n_observations"))
            = F(SqDiffSum(pred, target, Numel(pred)), Numel(pred))

\* C6: for psnr with return_state=True and one explicit data_range d, with
\* every field of two partitions' states summed, data_range^2 * n_obs /
\* sum_squared_error equals d^2 / (mean squared error of the whole pair);
\* stated cross-multiplied, so that a zero error is covered.
C6_PsnrStateMerge ==
    (pc = "worker2" /\ fn = "psnr" /\ data_range # <<>>) =>
        LET d == FInt(data_range[1])
            whole == F(SqDiffSum(pred, target, Numel(pred)), Numel(pred))
        IN  FMul(FMul(FMul(Summed("data_range"), Summed("data_range")),
                      Summed("n_obs")), whole)
                = FMul(FMul(d, d), Summed("sum_squared_error"))

\* C7: ssim(pred, target) equals ssim(target, pred), all other arguments
\* the same.
C7_Symmetric ==
    (pc = "called" /\ fn = "ssim") =>
        LET swapped == ssim(target, pred, kernel_size, sigma, reduction,
                            data_range, K1, K2)
        IN  out.err = swapped.err /\ out.val = swapped.val

C7_Witness ==
    /\ pc = "called"
    /\ fn = "ssim"
    /\ out.err = ""
    /\ kernel_size = <<3, 1>>
    /\ data_range = <<>>
    /\ Range(pred) # Range(target)
    /\ reduction = ReduceNone
    /\ "nf" \in DOMAIN out.val.data[1]

\* C8: rmse with return_state=True returns the state of the reduced tensor
\* m = mse(pred, target, reduction): squared_error = sum(m) and
\* n_observations = count(m), which is 1 under 'elementwise_mean' and 'sum'
\* and the number of elements under 'none'; no square root is taken.
C8_RmseStateOfReduced ==
    (pc = "called" /\ fn = "rmse" /\ return_state
     /\ reduction \in ValidReductions) =>
        LET n == BroadcastLen(pred, target)
            total == SqDiffSum(pred, target, n)
        IN  /\ out.err = ""
            /\ Item(out.val.n_observations)
                  = FInt(IF reduction = ReduceNone THEN n ELSE 1)
            /\ Item(out.val.squared_error)
                  = (IF reduction = ElementwiseMean THEN F(total, n)
                     ELSE FInt(total))

C8_Witness ==
    /\ pc = "called"
    /\ fn = "rmse"
    /\ return_state
    /\ reduction = ElementwiseMean
    /\ Numel(pred) = 3
    /\ Numel(target) = 3
    /\ Item(out.val.squared_error) = F(2, 3)
    /\ Item(out.val.n_observations) = FInt(1)

\* C9: the convolution output is split into exactly five tensors, each of
\* batch size B and shape (B, channel, H-kh+1, W-kw+1), the i-th holding
\* the convolution of the i-th stacked input block.
C9_FiveBlocks ==
    (pc = "called" /\ fn = "ssim" /\ output_list # <<>>) =>
        LET kernel == gaussian_kernel(pred.shape[2], kernel_size, sigma)
            blocks == <<pred, target, IntMul(pred, pred),
                        IntMul(target, target), IntMul(pred, target)>>
        IN  /\ Len(output_list) = 5
            /\ \A i \in 1..5 :
                  /\ output_list[i].shape =
                        <<pred.shape[1], pred.shape[2],
                          pred.shape[3] - kernel_size[1] + 1,
                          pred.shape[4] - kernel_size[2] + 1>>
                  /\ output_list[i] = conv2d(blocks[i], kernel)

\* C10: in the state psnr returns, n_obs is the number of elements of the
\* squared-error tensor summed into sum_squared_error, the count mse
\* reports as n_observations, for every broadcast-compatible pair.
C10_PsnrCount ==
    (pc = "called" /\ fn = "psnr" /\ return_state) =>
        /\ Item(out.val.n_obs) = FInt(Numel(mse_loss(pred, target)))
        /\ out.val.n_obs = mse(pred, target, reduction, TRUE).val.n_observations

====
